---- MODULE Spec2Model ----
(***************************************************************************)
(* Recommendation resolution, default-mapping maintenance and the          *)
(* participant profile ledger of the classroom check-in backend.           *)
(*                                                                         *)
(* Python strings are sequences of one-character strings, so that strip()  *)
(* and the wildcard tokens are computed and not assumed.  Python's None is *)
(* the one-element sequence None, which is no string of the program.       *)
(* A table without a used primary key is a bag of rows.                    *)
(***************************************************************************)
EXTENDS Integers, Sequences, FiniteSets, Bags, TLC

\* ------------------------------------------------------------------ bounds
MaxRecs == 4        \* recommendation rows kept in the table
MaxBatch == 1       \* mappings in one PATCH /recommendations payload
MaxSeeds == 3       \* rows a store may hold that were written directly
MaxSubs == 2        \* submission ids handed out
MaxCalls == 3       \* update_course_student_profile calls per participant
MaxPairs == 2       \* triples in one patched_pairs list of the maintainer
MaxCats == 3        \* entries of a totals map
MaxScore == 2       \* the largest total handed to determine_learning_style
MaxQuestions == 2   \* questions of a survey snapshot
MaxEdit == 2        \* mappings of a manual edit that may be rejected

\* ------------------------------------------------------------------ values
None == <<"None">>
SP == " "
EmptyStr == <<>>
Visual == <<"V">>
Auditory == <<"A">>
Unknown == <<"U">>
PadVisual == <<SP, "V", SP>>
happy == <<"h">>
sad == <<"s">>
PadSad == <<"s", SP>>
Blank == <<SP>>
STAR == <<"*">>
ANY_UPPER == <<"A", "N", "Y">>
any_lower == <<"a", "n", "y">>
default_token == <<"d", "e", "f", "a", "u", "l", "t">>

Courses == {"c1"}
ActivityIds == {"a1", "a2"}
NoActivity == "none"
learning_style_categories == {Visual, Auditory}
mood_labels == {happy, sad}

\* what a PATCH payload may carry as learning_style / mood
MappingStyles == {None, PadVisual}
MappingMoods == {any_lower, sad}
\* what get_recommended_activity may be asked with
StyleInputs == {None, EmptyStr, Visual, Auditory, PadVisual, any_lower}
MoodInputs == {None, EmptyStr, happy, sad, STAR, PadSad}

VARIABLES
  catalog,    \* activities, most recently updated first: <<[id, tagged]>>
  envId,      \* settings.system_default_activity_id (NoActivity: not set)
  courses,    \* ids of the courses that exist
  recs,       \* committed course_recommendations rows (a bag)
  ensured,    \* courses for which ensure_defaults_for_course ran with a non-empty catalog
  last,       \* the last call on the recommendations and its outcome
  subs,       \* committed submissions rows
  profiles,   \* committed course_student_profiles rows
  tx,         \* per request handler: the ledger call in flight
  reply,      \* the outcome of the ledger call that finished last
  pcalls,     \* per participant: update_course_student_profile calls finished
  survey_snapshot,  \* the questions of the survey scored last
  survey_answers,   \* the answers scored last: question id -> answer
  total_scores,     \* the totals handed to determine_learning_style last
  determined,       \* what determine_learning_style returned for them
  answer_details,   \* what build_answer_details returned: question id -> selected option
  course_rows,      \* per course: requires_rebaseline and baseline_survey_id
  class_sessions    \* committed sessions rows

recVars == <<catalog, envId, courses, recs, ensured, last>>
ledgerVars == <<subs, profiles, tx, reply, pcalls>>
surveyVars == <<survey_snapshot, survey_answers, total_scores, determined, answer_details>>
classVars == <<course_rows, class_sessions>>
vars == <<catalog, envId, courses, recs, ensured, last, subs, profiles, tx, reply, pcalls,
          survey_snapshot, survey_answers, total_scores, determined, answer_details,
          course_rows, class_sessions>>

\* ------------------------------------------------------------------ strings
RECURSIVE LStrip(_)
LStrip(s) == IF s # <<>> /\ Head(s) = SP THEN LStrip(Tail(s)) ELSE s

RECURSIVE RStrip(_)
RStrip(s) == IF s # <<>> /\ s[Len(s)] = SP THEN RStrip(SubSeq(s, 1, Len(s) - 1)) ELSE s

strip(s) == RStrip(LStrip(s))

WildcardTokens == {STAR, ANY_UPPER, any_lower, default_token}

_normalize_default(value) ==
  IF value = None THEN None
  ELSE LET trimmed == strip(value)
       IN IF trimmed = EmptyStr THEN None
          ELSE IF trimmed \in WildcardTokens THEN None
          ELSE value

_normalize_key(value) ==
  IF value = None THEN None
  ELSE LET trimmed == strip(value)
       IN IF trimmed = EmptyStr \/ trimmed \in WildcardTokens THEN None
          ELSE trimmed

\* Python truthiness of an Optional[str]
Truthy(value) == value # None /\ value # EmptyStr

\* the sequences over S of length n at most
RECURSIVE SeqsUpTo(_, _)
SeqsUpTo(S, n) ==
  IF n = 0 THEN {<<>>}
  ELSE LET shorter == SeqsUpTo(S, n - 1)
       IN shorter \cup {Append(q, x) : q \in shorter, x \in S}

\* ------------------------------------------------------------------ tables
Row(c, ls, md, a, auto) ==
  [course_id |-> c, learning_style |-> ls, mood |-> md, activity_id |-> a, is_auto |-> auto]

One(r) == SetToBag({r})

ReplaceRow(db, r, r2) == IF r = r2 THEN db ELSE (db (-) One(r)) (+) One(r2)

_nullish_filter(v) == v = None \/ v = EmptyStr

\* the WHERE clause shared by the key lookups: a normalized None selects the
\* NULL-or-empty rows, anything else selects by equality
KeyFilter(r, c, ns, nm) ==
  /\ r.course_id = c
  /\ IF ns = None THEN _nullish_filter(r.learning_style) ELSE r.learning_style = ns
  /\ IF nm = None THEN _nullish_filter(r.mood) ELSE r.mood = nm

CatalogIds(cat) == {cat[i].id : i \in DOMAIN cat}

ActivityExists(cat, a) == a \in CatalogIds(cat)

\* ------------------------------------------------------------------ resolver
SYSTEM_DEFAULT_ACTIVITY_TAG == "__system_default__"

Tagged(cat) == {i \in DOMAIN cat : SYSTEM_DEFAULT_ACTIVITY_TAG \in cat[i].tags}

Min(S) == CHOOSE x \in S : \A y \in S : x <= y

\* a choice that looks at the reserved tag before the configured id
pick_system_default_activity_TagFirst(cat, env) ==
  IF cat # <<>> /\ Tagged(cat) # {} THEN cat[Min(Tagged(cat))].id
  ELSE IF env # NoActivity /\ ActivityExists(cat, env) THEN env
  ELSE IF cat = <<>> THEN NoActivity
  ELSE cat[1].id

\* a choice that gives up when no activity is configured or tagged
pick_system_default_activity_NoNewest(cat, env) ==
  IF env # NoActivity /\ ActivityExists(cat, env) THEN env
  ELSE IF cat = <<>> THEN NoActivity
  ELSE IF Tagged(cat) # {} THEN cat[Min(Tagged(cat))].id
  ELSE NoActivity

\* the id of the preferred system default activity, NoActivity when there is none
pick_system_default_activity(cat, env) ==
  IF env # NoActivity /\ ActivityExists(cat, env) THEN env
  ELSE IF cat = <<>> THEN NoActivity
  ELSE IF Tagged(cat) # {} THEN cat[Min(Tagged(cat))].id
  ELSE cat[1].id

\* the rows query.first() may return ({}: it returns None).  updated_at is
\* the transaction time, so rows of one key written together tie and the
\* ordered lookup, like the random one, may return any matching row.
_query_recommendation(db, c, learning_style, mood) ==
  LET normalized_style == _normalize_default(learning_style)
      normalized_mood == _normalize_default(mood)
  IN {r \in BagToSet(db) : KeyFilter(r, c, normalized_style, normalized_mood)}

Results(tier, rows) == {[tier |-> tier, activity |-> r.activity_id] : r \in rows}

\* the (tier, activity) pairs a call may return
\* a resolver that tries the mood default before the two style tiers
get_recommended_activity_MoodFirst(db, cat, env, c, mood, learning_style) ==
  LET exact_match == _query_recommendation(db, c, learning_style, mood)
      style_default == _query_recommendation(db, c, learning_style, None)
      mood_default == _query_recommendation(db, c, None, mood)
      random_pick == _query_recommendation(db, c, None, None)
      platform_default == pick_system_default_activity(cat, env)
  IN IF mood_default # {} THEN Results("mood-default", mood_default)
     ELSE IF Truthy(learning_style) /\ exact_match # {} THEN Results("style+mood", exact_match)
     ELSE IF Truthy(learning_style) /\ style_default # {} THEN Results("style-default", style_default)
     ELSE IF random_pick # {} THEN Results("random-course-activity", random_pick)
     ELSE IF platform_default # NoActivity
          THEN {[tier |-> "system-default", activity |-> platform_default]}
     ELSE {[tier |-> "none", activity |-> NoActivity]}

get_recommended_activity(db, cat, env, c, mood, learning_style) ==
  LET exact_match == _query_recommendation(db, c, learning_style, mood)
      style_default == _query_recommendation(db, c, learning_style, None)
      mood_default == _query_recommendation(db, c, None, mood)
      random_pick == _query_recommendation(db, c, None, None)
      platform_default == pick_system_default_activity(cat, env)
  IN IF Truthy(learning_style) /\ exact_match # {} THEN Results("style+mood", exact_match)
     ELSE IF Truthy(learning_style) /\ style_default # {} THEN Results("style-default", style_default)
     ELSE IF mood_default # {} THEN Results("mood-default", mood_default)
     ELSE IF random_pick # {} THEN Results("random-course-activity", random_pick)
     ELSE IF platform_default # NoActivity
          THEN {[tier |-> "system-default", activity |-> platform_default]}
     ELSE {[tier |-> "none", activity |-> NoActivity]}

\* ------------------------------------------------------------------ db session
\* A request's SQLAlchemy session: db is what its queries see (committed rows
\* and its own flushed writes), pending the added objects not yet flushed
\* (SessionLocal has autoflush=False), pairs the patched pairs so far.
OpenSession(db) == [db |-> db, pending |-> EmptyBag, pairs |-> <<>>, err |-> "ok"]

SameKey(r1, r2) ==
  /\ r1.course_id = r2.course_id
  /\ r1.learning_style = r2.learning_style
  /\ r1.mood = r2.mood

\* uq_course_style_mood: SQL NULLs are distinct, so only rows with both
\* columns set can collide
uq_course_style_mood(db) ==
  \A r1 \in BagToSet(db) :
    (r1.learning_style # None /\ r1.mood # None) =>
      /\ CopiesIn(r1, db) = 1
      /\ \A r2 \in BagToSet(db) : SameKey(r1, r2) => r1 = r2

flush(st) ==
  IF st.err # "ok" THEN st
  ELSE LET all == st.db (+) st.pending
       IN IF uq_course_style_mood(all)
          THEN [st EXCEPT !.db = all, !.pending = EmptyBag]
          ELSE [st EXCEPT !.err = "IntegrityError"]

\* ------------------------------------------------------------------ manual edits
Mapping(ls, md, a) == [learning_style |-> ls, mood |-> md, activity_id |-> a]

\* one iteration of the loop of _apply_recommendation_mappings; the set of
\* session states it may leave (first() picks any row of the key)
ApplyMapping(st, cat, c, mapping, mark_auto, allow_overwrite_manual) ==
  LET learning_style == _normalize_key(mapping.learning_style)
      mood == _normalize_key(mapping.mood)
      existing == {r \in BagToSet(st.db) : KeyFilter(r, c, learning_style, mood)}
      patched == Append(st.pairs, <<learning_style, mood, mapping.activity_id>>)
  IN IF st.err # "ok" THEN {st}
     ELSE IF Truthy(learning_style) /\ learning_style \notin learning_style_categories
          THEN {[st EXCEPT !.err = "UNKNOWN_LEARNING_STYLE"]}
     ELSE IF Truthy(mood) /\ mood \notin mood_labels
          THEN {[st EXCEPT !.err = "UNKNOWN_MOOD"]}
     ELSE IF ~ActivityExists(cat, mapping.activity_id)
          THEN {[st EXCEPT !.err = "ACTIVITY_NOT_FOUND"]}
     ELSE IF existing # {}
          THEN {IF ~allow_overwrite_manual /\ ~r.is_auto
                THEN st
                ELSE [st EXCEPT
                        !.db = ReplaceRow(@, r, [r EXCEPT !.activity_id = mapping.activity_id,
                                                          !.is_auto = mark_auto]),
                        !.pairs = patched]
                : r \in existing}
     ELSE {[st EXCEPT
              !.pending = @ (+) One(Row(c, learning_style, mood, mapping.activity_id, mark_auto)),
              !.pairs = patched]}

RECURSIVE _apply_recommendation_mappings(_, _, _, _, _, _)
_apply_recommendation_mappings(sts, cat, c, mappings, mark_auto, allow_overwrite_manual) ==
  IF mappings = <<>> THEN sts
  ELSE _apply_recommendation_mappings(
         UNION {ApplyMapping(s, cat, c, Head(mappings), mark_auto, allow_overwrite_manual) : s \in sts},
         cat, c, Tail(mappings), mark_auto, allow_overwrite_manual)

\* ------------------------------------------------------------------ default maintainer
\* the body shared by the three passes: an existing row is re-pointed only
\* when it is auto-managed, a missing row is added as auto-managed
\* a maintainer that refreshes the row it finds whoever created it
RefreshOrAdd_AnyRow(st, found, c, ls, md, activity_id) ==
  IF found # {}
  THEN {[st EXCEPT !.db = ReplaceRow(@, recommendation,
                            IF recommendation.activity_id # activity_id
                            THEN [recommendation EXCEPT !.activity_id = activity_id]
                            ELSE recommendation)]
        : recommendation \in found}
  ELSE {[st EXCEPT !.pending = @ (+) One(Row(c, ls, md, activity_id, TRUE))]}

RefreshOrAdd(st, found, c, ls, md, activity_id) ==
  IF found # {}
  THEN {[st EXCEPT !.db = ReplaceRow(@, recommendation,
                            IF recommendation.is_auto /\ recommendation.activity_id # activity_id
                            THEN [recommendation EXCEPT !.activity_id = activity_id]
                            ELSE recommendation)]
        : recommendation \in found}
  ELSE {[st EXCEPT !.pending = @ (+) One(Row(c, ls, md, activity_id, TRUE))]}

ensure_course_global_default(st, cat, env, c) ==
  LET activity == pick_system_default_activity(cat, env)
      found == {r \in BagToSet(st.db) :
                  /\ r.course_id = c
                  /\ _nullish_filter(r.learning_style)
                  /\ _nullish_filter(r.mood)}
  IN IF st.err # "ok" \/ activity = NoActivity THEN {st}
     ELSE {flush(s) : s \in RefreshOrAdd(st, found, c, None, None, activity)}

\* the keys of latest_for_mood / latest_for_style in insertion order (i = 2:
\* the mood, i = 1: the style) and the activity each key ends up with
RECURSIVE LatestKeys(_, _)
LatestKeys(pairs, i) ==
  IF pairs = <<>> THEN <<>>
  ELSE LET front == LatestKeys(SubSeq(pairs, 1, Len(pairs) - 1), i)
           k == pairs[Len(pairs)][i]
       IN IF k = None \/ \E j \in DOMAIN front : front[j] = k THEN front ELSE Append(front, k)

\* a table of latest activities in which the first triple of a key wins
LatestFor_First(pairs, i, k) ==
  LET at == {j \in DOMAIN pairs : pairs[j][i] = k}
  IN pairs[CHOOSE j \in at : \A j2 \in at : j <= j2][3]

LatestFor(pairs, i, k) ==
  LET at == {j \in DOMAIN pairs : pairs[j][i] = k}
  IN pairs[CHOOSE j \in at : \A j2 \in at : j2 <= j][3]

RECURSIVE MoodLoop(_, _, _, _)
MoodLoop(sts, c, pairs, moods) ==
  IF moods = <<>> THEN sts
  ELSE LET mood == Head(moods)
       IN MoodLoop(
            UNION {RefreshOrAdd(s,
                     {r \in BagToSet(s.db) :
                        /\ r.course_id = c
                        /\ _nullish_filter(r.learning_style)
                        /\ r.mood = mood},
                     c, None, mood, LatestFor(pairs, 2, mood)) : s \in sts},
            c, pairs, Tail(moods))

ensure_mood_defaults(st, c, patched_pairs) ==
  IF st.err # "ok" THEN {st}
  ELSE {flush(s) : s \in MoodLoop({st}, c, patched_pairs, LatestKeys(patched_pairs, 2))}

RECURSIVE StyleLoop(_, _, _, _)
StyleLoop(sts, c, pairs, styles) ==
  IF styles = <<>> THEN sts
  ELSE LET style == Head(styles)
       IN StyleLoop(
            UNION {RefreshOrAdd(s,
                     {r \in BagToSet(s.db) :
                        /\ r.course_id = c
                        /\ r.learning_style = style
                        /\ _nullish_filter(r.mood)},
                     c, style, None, LatestFor(pairs, 1, style)) : s \in sts},
            c, pairs, Tail(styles))

ensure_style_defaults(st, c, patched_pairs) ==
  IF st.err # "ok" THEN {st}
  ELSE {flush(s) : s \in StyleLoop({st}, c, patched_pairs, LatestKeys(patched_pairs, 1))}

ensure_defaults_for_course(st, cat, env, c, patched_pairs) ==
  LET g == ensure_course_global_default(st, cat, env, c)
  IN IF patched_pairs = <<>> THEN g
     ELSE UNION {ensure_style_defaults(m, c, patched_pairs) :
                   m \in UNION {ensure_mood_defaults(s, c, patched_pairs) : s \in g}}

\* db.commit(): flushes what is still pending and makes the session's rows
\* the committed ones
commit(st) == flush(st)

\* a session whose close keeps the writes of a failed request
get_db_KeepsWrites(st, committed) == st.db (+) st.pending

\* the table after get_db has closed the session of a request: a request
\* that raised never reached db.commit(), and close() rolls its writes back
get_db(st, committed) == IF st.err = "ok" THEN st.db ELSE committed

\* ------------------------------------------------------------------ operations
\* the last call: patched counts the mappings a rejected edit had applied
NoCall ==
  [op |-> "init", course |-> "", tier |-> "", activity |-> NoActivity, err |-> "ok",
   patched |-> 0]

Call(op, c) == [NoCall EXCEPT !.op = op, !.course = c]

TagSets == {{}, {SYSTEM_DEFAULT_ACTIVITY_TAG}}

Without(cat, a) == SelectSeq(cat, LAMBDA x : x.id # a)

\* POST /activities: a new activity is the most recently updated one
create_activity(a, tags) ==
  /\ ~ActivityExists(catalog, a)
  /\ catalog' = <<[id |-> a, tags |-> tags]>> \o catalog
  /\ UNCHANGED <<envId, courses, recs, ensured, last>>
  /\ UNCHANGED ledgerVars
  /\ UNCHANGED surveyVars
  /\ UNCHANGED classVars

\* PATCH /activities/{id}: onupdate refreshes updated_at
update_activity(a, tags) ==
  /\ ActivityExists(catalog, a)
  /\ catalog' = <<[id |-> a, tags |-> tags]>> \o Without(catalog, a)
  /\ UNCHANGED <<envId, courses, recs, ensured, last>>
  /\ UNCHANGED ledgerVars
  /\ UNCHANGED surveyVars
  /\ UNCHANGED classVars

\* the survey templates; courses are created on the first
SurveyTemplates == {"t1", "t2"}
BaselineSurvey == "t1"

CourseRow(baseline_survey_id, requires_rebaseline) ==
  [baseline_survey_id |-> baseline_survey_id, requires_rebaseline |-> requires_rebaseline]

\* POST /courses: the course is committed, then ensure_defaults_for_course
\* runs; db.new and db.dirty are empty after its flush, so nothing is
\* committed and get_db closes the session, which rolls the rows back
create_course(c) ==
  /\ c \notin courses
  /\ courses' = courses \cup {c}
  /\ \E st \in ensure_defaults_for_course(OpenSession(recs), catalog, envId, c, <<>>) :
       LET new_or_dirty == st.pending # EmptyBag
       IN recs' = IF new_or_dirty THEN commit(st).db ELSE recs
  /\ ensured' = IF catalog # <<>> THEN ensured \cup {c} ELSE ensured
  /\ last' = Call("create_course", c)
  /\ course_rows' = [course_rows EXCEPT ![c] = CourseRow(BaselineSurvey, TRUE)]
  /\ UNCHANGED <<catalog, envId, class_sessions>>
  /\ UNCHANGED ledgerVars
  /\ UNCHANGED surveyVars

\* PATCH /courses/{id}/recommendations; an exception leaves the request
\* before db.commit() and the closing session rolls everything back
upsert_course_recommendations(c, mappings) ==
  /\ c \in courses
  /\ LET applied == _apply_recommendation_mappings({OpenSession(recs)}, catalog, c,
                                                    mappings, FALSE, TRUE)
         done == UNION {IF s.err # "ok" THEN {s}
                        ELSE {commit(e) : e \in ensure_defaults_for_course(s, catalog, envId, c, s.pairs)}
                        : s \in applied}
     IN \E st \in done :
          /\ BagCardinality(st.db) <= MaxRecs
          /\ recs' = get_db(st, recs)
          /\ ensured' = IF st.err = "ok" /\ catalog # <<>> THEN ensured \cup {c} ELSE ensured
          /\ last' = [Call("patch", c) EXCEPT
                        !.err = st.err,
                        !.patched = IF st.err = "ok" THEN 0 ELSE Len(st.pairs)]
  /\ UNCHANGED <<catalog, envId, courses>>
  /\ UNCHANGED ledgerVars
  /\ UNCHANGED surveyVars
  /\ UNCHANGED classVars

\* the service called on its own and committed, as the service tests do
EnsureDefaults(c, patched_pairs) ==
  /\ c \in courses
  /\ \A i \in DOMAIN patched_pairs : ActivityExists(catalog, patched_pairs[i][3])
  /\ \E e \in ensure_defaults_for_course(OpenSession(recs), catalog, envId, c, patched_pairs) :
       LET st == commit(e)
       IN /\ st.err = "ok"
          /\ BagCardinality(st.db) <= MaxRecs
          /\ recs' = st.db
  /\ ensured' = IF catalog # <<>> THEN ensured \cup {c} ELSE ensured
  /\ last' = Call("ensure", c)
  /\ UNCHANGED <<catalog, envId, courses>>
  /\ UNCHANGED ledgerVars
  /\ UNCHANGED surveyVars
  /\ UNCHANGED classVars

\* a row written through the ORM and committed, as the service tests seed
\* their mappings; the table's constraints still apply
SeedRecommendation(r) ==
  /\ r.course_id \in courses
  /\ ActivityExists(catalog, r.activity_id)
  /\ BagCardinality(recs) < MaxSeeds
  /\ uq_course_style_mood(recs (+) One(r))
  /\ recs' = recs (+) One(r)
  /\ last' = Call("seed", r.course_id)
  /\ UNCHANGED <<catalog, envId, courses, ensured>>
  /\ UNCHANGED ledgerVars
  /\ UNCHANGED surveyVars
  /\ UNCHANGED classVars

\* GET of a recommendation for a participant
Resolve(c, mood, style) ==
  /\ c \in courses
  /\ \E answer \in get_recommended_activity(recs, catalog, envId, c, mood, style) :
       last' = [Call("resolve", c) EXCEPT !.tier = answer.tier, !.activity = answer.activity]
  /\ UNCHANGED <<catalog, envId, courses, recs, ensured>>
  /\ UNCHANGED ledgerVars
  /\ UNCHANGED surveyVars
  /\ UNCHANGED classVars

\* ------------------------------------------------------------------ profile ledger
NULL == "NULL"                  \* SQL NULL, Python None, for ids, names and payloads
Handlers == {"h1", "h2"}        \* request handlers, each with its own db session
Sessions == {"x1", "x2"}        \* class sessions, both of course c1
Course1 == "c1"
\* what a survey submission carries: a mood check-in alone, or a full
\* baseline survey
Surveys == {[mood |-> happy, answers |-> NULL, total_scores |-> NULL,
             is_baseline_update |-> FALSE],
            [mood |-> sad, answers |-> "answers", total_scores |-> "scores",
             is_baseline_update |-> TRUE]}

Participant(student, guest_id) == [student |-> student, guest_id |-> guest_id]
\* a registered student or a guest
Participants == {Participant("s1", NULL), Participant(NULL, "g1")}
\* what a caller may pass as (student, guest_id, guest_name)
Caller(student, guest_id, guest_name) ==
  [who |-> Participant(student, guest_id), guest_name |-> guest_name]
Callers == {Caller("s1", NULL, NULL), Caller("s1", "g1", "Ann"), Caller(NULL, "g1", "Ann"),
            Caller(NULL, "g1", NULL), Caller(NULL, NULL, NULL)}

Idle == [pc |-> "idle"]
NoResult == [op |-> "none", status |-> "ok", id |-> 0]

\* a fresh uuid: the smallest id no row of the table carries
FreshId(rows) == Min({i \in 1..(Cardinality(rows) + 1) : \A r \in rows : r.id # i})

\* == None compiles to IS NULL, so a missing guest_id selects the rows
\* without a guest_id
\* a lookup that never finds the participant's record
SubmissionQuery_NoLookup(rows, session, who) == {}

SubmissionQuery(rows, session, who) ==
  {r \in rows :
     /\ r.session_id = session
     /\ IF who.student # NULL THEN r.student_id = who.student ELSE r.guest_id = who.guest_id}

ck_submission_student_or_guest(r) ==
  \/ r.student_id # NULL /\ r.guest_name = NULL /\ r.guest_id = NULL
  \/ r.student_id = NULL /\ r.guest_name # NULL /\ r.guest_id # NULL

uq_session_student(rows) ==
  \A r1, r2 \in rows :
    (r1.student_id # NULL /\ r1.session_id = r2.session_id /\ r1.student_id = r2.student_id)
      => r1 = r2

uq_session_guest_id(rows) ==
  \A r1, r2 \in rows :
    (r1.guest_id # NULL /\ r1.session_id = r2.session_id /\ r1.guest_id = r2.guest_id)
      => r1 = r2

SubmissionsOK(rows) ==
  /\ \A r \in rows : ck_submission_student_or_guest(r)
  /\ uq_session_student(rows)
  /\ uq_session_guest_id(rows)

\* a payload that is never emptied
AnswersPayload_Kept(answers) == "answers"

\* the payload stored in answers_json
AnswersPayload(answers) == IF answers # NULL THEN answers ELSE NULL

\* a lookup that also drops every current profile row
UpsertQuery_ProfileReset(h, session, who, guest_name, form) ==
  /\ tx[h] = Idle
  /\ LET hit == SubmissionQuery(subs, session, who)
     IN \E found \in (IF hit = {} THEN {0} ELSE {r.id : r \in hit}) :
          tx' = [tx EXCEPT ![h] = [pc |-> "upsert", session |-> session, who |-> who,
                                   guest_name |-> guest_name, form |-> form,
                                   found |-> found]]
  /\ profiles' = {r \in profiles : ~r.is_current}
  /\ UNCHANGED <<subs, reply, pcalls>>
  /\ UNCHANGED recVars
  /\ UNCHANGED surveyVars
  /\ UNCHANGED classVars

\* upsert_submission up to its query: the record first() returns is kept
UpsertQuery(h, session, who, guest_name, form) ==
  /\ tx[h] = Idle
  /\ LET hit == SubmissionQuery(subs, session, who)
     IN \E found \in (IF hit = {} THEN {0} ELSE {r.id : r \in hit}) :
          tx' = [tx EXCEPT ![h] = [pc |-> "upsert", session |-> session, who |-> who,
                                   guest_name |-> guest_name, form |-> form,
                                   found |-> found]]
  /\ UNCHANGED <<subs, profiles, reply, pcalls>>
  /\ UNCHANGED recVars
  /\ UNCHANGED surveyVars
  /\ UNCHANGED classVars

\* the rest of upsert_submission and the caller's commit: the found record
\* is mutated, or a new one is added and inserted under the constraints
upsert_submission(h) ==
  /\ tx[h].pc = "upsert"
  /\ LET t == tx[h]
         status == IF t.form.answers # NULL THEN "completed" ELSE "completed"
         submission == [id |-> FreshId(subs),
                        session_id |-> t.session,
                        course_id |-> Course1,
                        student_id |-> t.who.student,
                        guest_id |-> IF t.who.student = NULL THEN t.who.guest_id ELSE NULL,
                        guest_name |-> IF t.who.student = NULL THEN t.guest_name ELSE NULL,
                        mood |-> t.form.mood,
                        answers_json |-> AnswersPayload(t.form.answers),
                        total_scores |-> t.form.total_scores,
                        is_baseline_update |-> t.form.is_baseline_update,
                        status |-> status]
         outcome == [NoResult EXCEPT !.op = "upsert"]
     IN IF t.found # 0
        THEN /\ subs' = {IF r.id = t.found
                         THEN [r EXCEPT !.course_id = Course1,
                                        !.mood = t.form.mood,
                                        !.answers_json = AnswersPayload(t.form.answers),
                                        !.total_scores = t.form.total_scores,
                                        !.is_baseline_update = t.form.is_baseline_update,
                                        !.status = status]
                         ELSE r : r \in subs}
             /\ reply' = [outcome EXCEPT !.id = t.found]
        ELSE /\ submission.id <= MaxSubs
             /\ IF SubmissionsOK(subs \cup {submission})
                THEN /\ subs' = subs \cup {submission}
                     /\ reply' = [outcome EXCEPT !.id = submission.id]
                ELSE /\ subs' = subs
                     /\ reply' = [outcome EXCEPT !.status = "IntegrityError"]
  /\ tx' = [tx EXCEPT ![h] = Idle]
  /\ UNCHANGED <<profiles, pcalls>>
  /\ UNCHANGED recVars
  /\ UNCHANGED surveyVars
  /\ UNCHANGED classVars

ProfileQuery(rows, course, who) ==
  {r \in rows :
     /\ r.course_id = course
     /\ IF who.student # NULL THEN r.student_id = who.student ELSE r.guest_id = who.guest_id}

get_current_profile(rows, course, student_id, guest_id) ==
  {r \in rows :
     /\ r.course_id = course
     /\ r.is_current
     /\ IF student_id # NULL THEN r.student_id = student_id ELSE r.guest_id = guest_id}

uq_course_student_current(rows) ==
  \A r1, r2 \in rows :
    (r1.student_id # NULL /\ r1.course_id = r2.course_id /\ r1.student_id = r2.student_id
       /\ r1.is_current = r2.is_current) => r1 = r2

uq_course_guest_current(rows) ==
  \A r1, r2 \in rows :
    (r1.guest_id # NULL /\ r1.course_id = r2.course_id /\ r1.guest_id = r2.guest_id
       /\ r1.is_current = r2.is_current) => r1 = r2

\* a profile table without its two unique constraints
ProfilesOK_Unconstrained(rows) == TRUE

ProfilesOK(rows) == uq_course_student_current(rows) /\ uq_course_guest_current(rows)

\* an update that drops the stale rows instead of keeping them
MarkNotCurrent_Dropped(rows, ids) == {r \in rows : r.id \notin ids}

MarkNotCurrent(rows, ids) ==
  {IF r.id \in ids THEN [r EXCEPT !.is_current = FALSE] ELSE r : r \in rows}

Finished(who) == [pcalls EXCEPT ![who] = @ + 1]

InFlight(who) == Cardinality({h \in Handlers : tx[h].pc = "marked" /\ tx[h].who = who})

\* update_course_student_profile up to query.update(): the UPDATE runs at
\* once, inside the caller's transaction, on the rows it finds
MarkStale(h, submission, learning_style) ==
  /\ tx[h] = Idle
  /\ submission \in subs
  /\ submission.is_baseline_update
  /\ LET who == IF submission.student_id # NULL
                THEN Participant(submission.student_id, NULL)
                ELSE Participant(NULL, submission.guest_id)
         stale == {r.id : r \in ProfileQuery(profiles, Course1, who)}
     IN /\ pcalls[who] + InFlight(who) < MaxCalls
        /\ IF ProfilesOK(MarkNotCurrent(profiles, stale))
           THEN /\ tx' = [tx EXCEPT ![h] = [pc |-> "marked", who |-> who, stale |-> stale,
                                            sub |-> submission.id,
                                            category |-> learning_style,
                                            scores |-> submission.total_scores]]
                /\ UNCHANGED <<reply, pcalls>>
           ELSE /\ tx' = tx
                /\ reply' = [NoResult EXCEPT !.op = "profile", !.status = "IntegrityError"]
                /\ pcalls' = Finished(who)
  /\ UNCHANGED <<subs, profiles>>
  /\ UNCHANGED recVars
  /\ UNCHANGED surveyVars
  /\ UNCHANGED classVars

\* the rest of update_course_student_profile and the caller's commit: the
\* new current row is inserted and the transaction ends
update_course_student_profile(h) ==
  /\ tx[h].pc = "marked"
  /\ LET t == tx[h]
         profile == [id |-> FreshId(profiles),
                     course_id |-> Course1,
                     student_id |-> t.who.student,
                     guest_id |-> IF t.who.student = NULL THEN t.who.guest_id ELSE NULL,
                     latest_submission_id |-> t.sub,
                     profile_category |-> t.category,
                     profile_scores_json |-> t.scores,
                     is_current |-> TRUE]
         written == MarkNotCurrent(profiles, t.stale) \cup {profile}
         outcome == [NoResult EXCEPT !.op = "profile"]
     IN IF ProfilesOK(written)
        THEN /\ profiles' = written
             /\ reply' = [outcome EXCEPT !.id = profile.id]
             /\ pcalls' = Finished(t.who)
        ELSE /\ profiles' = profiles
             /\ reply' = [outcome EXCEPT !.status = "IntegrityError"]
             /\ pcalls' = Finished(t.who)
  /\ tx' = [tx EXCEPT ![h] = Idle]
  /\ UNCHANGED subs
  /\ UNCHANGED recVars
  /\ UNCHANGED surveyVars
  /\ UNCHANGED classVars

InitLedger ==
  /\ subs = {}
  /\ profiles = {}
  /\ tx = [h \in Handlers |-> Idle]
  /\ reply = NoResult
  /\ pcalls = [who \in Participants |-> 0]

LedgerNext(handlers, sessions) ==
  \/ \E h \in handlers, session \in sessions, caller \in Callers, form \in Surveys :
        UpsertQuery(h, session, caller.who, caller.guest_name, form)
  \/ \E h \in handlers : upsert_submission(h)
  \/ \E h \in handlers, submission \in subs, learning_style \in {Visual} :
        MarkStale(h, submission, learning_style)
  \/ \E h \in handlers : update_course_student_profile(h)

\* ------------------------------------------------------------------ class sessions
\* Each operation is the handler up to its commit: the status it answers
\* with and the tables it leaves.
SessionOrder == <<"x1", "x2">>      \* the ids new sessions get, in turn
JoinTokens == {"k1", "k2", "k9"}     \* k9: the token of no session

token_urlsafe(id) == IF id = "x1" THEN "k1" ELSE "k2"

UnusedSessions(rows) == {i \in DOMAIN SessionOrder : \A r \in rows : r.id # SessionOrder[i]}

SessionOutcome(status, course_tbl, rows) ==
  [status |-> status, course_rows |-> course_tbl, class_sessions |-> rows]

\* a handler that takes the request at its word
final_require_survey_Requested(course, requested_require_survey) == requested_require_survey

final_require_survey(course, requested_require_survey) ==
  course.requires_rebaseline \/ requested_require_survey

\* POST /sessions/{course_id}/sessions; the snapshot is named by its template
create_session(existing, course_tbl, rows, c, requested_require_survey) ==
  IF c \notin existing THEN SessionOutcome("COURSE_NOT_FOUND", course_tbl, rows)
  ELSE IF mood_labels = {} THEN SessionOutcome("COURSE_MOOD_LABELS_NOT_CONFIGURED", course_tbl, rows)
  ELSE LET course == course_tbl[c]
           final == final_require_survey(course, requested_require_survey)
       IN IF final /\ course.baseline_survey_id = NULL
          THEN SessionOutcome("COURSE_BASELINE_NOT_SET", course_tbl, rows)
          ELSE LET id == SessionOrder[Min(UnusedSessions(rows))]
                   session == [id |-> id,
                               course_id |-> c,
                               survey_template_id |-> course.baseline_survey_id,
                               require_survey |-> final,
                               survey_snapshot_json |-> IF final THEN course.baseline_survey_id
                                                        ELSE NULL,
                               closed_at |-> NULL,
                               join_token |-> token_urlsafe(id)]
               IN SessionOutcome("ok",
                    [course_tbl EXCEPT ![c].requires_rebaseline = IF final THEN FALSE ELSE @],
                    rows \cup {session})

\* PATCH /courses/{course_id}: a new baseline survey asks for a rebaseline
update_course(existing, course_tbl, rows, c, baseline_survey_id) ==
  IF c \notin existing THEN SessionOutcome("COURSE_NOT_FOUND", course_tbl, rows)
  ELSE IF baseline_survey_id # NULL /\ baseline_survey_id # course_tbl[c].baseline_survey_id
       THEN IF baseline_survey_id \notin SurveyTemplates
            THEN SessionOutcome("SURVEY_TEMPLATE_NOT_FOUND", course_tbl, rows)
            ELSE SessionOutcome("ok",
                   [course_tbl EXCEPT ![c] = CourseRow(baseline_survey_id, TRUE)], rows)
       ELSE SessionOutcome("ok", course_tbl, rows)

\* POST /sessions/{session_id}/close
close_session(course_tbl, rows, session_id) ==
  IF \A r \in rows : r.id # session_id THEN SessionOutcome("SESSION_NOT_FOUND", course_tbl, rows)
  ELSE LET session == CHOOSE r \in rows : r.id = session_id
       IN IF session.closed_at # NULL
          THEN SessionOutcome("SESSION_ALREADY_CLOSED", course_tbl, rows)
          ELSE SessionOutcome("ok", course_tbl,
                 {IF r.id = session_id THEN [r EXCEPT !.closed_at = "now"] ELSE r : r \in rows})

\* a lookup that lets closed sessions through
get_session_by_token_NoClosedCheck(rows, join_token) ==
  IF \A r \in rows : r.join_token # join_token THEN "SESSION_NOT_FOUND" ELSE "ok"

\* GET /public/join/{join_token}: the status it answers with
get_session_by_token(rows, join_token) ==
  IF \A r \in rows : r.join_token # join_token THEN "SESSION_NOT_FOUND"
  ELSE LET session == CHOOSE r \in rows : r.join_token = join_token
       IN IF session.closed_at # NULL THEN "SESSION_CLOSED"
          ELSE IF session.survey_template_id \notin SurveyTemplates
               THEN "SURVEY_TEMPLATE_NOT_FOUND"
               ELSE "ok"

SubmitOutcome(status, rows, submission_id, guest_id) ==
  [status |-> status, subs |-> rows, submission_id |-> submission_id, guest_id |-> guest_id]

\* str(uuid.uuid4()): an id no request has carried
uuid4(rows) == "u" \o ToString(FreshId(rows))

\* a handler that never looks a guest's record up
ExistingSubmission_NoGuestLookup(rows, session_id, is_guest, guest_id, current_student) ==
  IF is_guest
  THEN {}
  ELSE {r \in rows : r.session_id = session_id /\ r.student_id = current_student}

\* the record the handler looks for before it writes
ExistingSubmission(rows, session_id, is_guest, guest_id, current_student) ==
  IF is_guest
  THEN IF guest_id # NULL
       THEN {r \in rows : r.session_id = session_id /\ r.guest_id = guest_id}
       ELSE {}
  ELSE {r \in rows : r.session_id = session_id /\ r.student_id = current_student}

\* POST /public/join/{join_token}/submit
submit_survey(sess, rows, join_token, current_student, is_guest_flag, student_name, answers, guest_id_in) ==
  IF get_session_by_token(sess, join_token) = "SESSION_NOT_FOUND"
  THEN SubmitOutcome("SESSION_NOT_FOUND", rows, 0, NULL)
  ELSE IF get_session_by_token(sess, join_token) = "SESSION_CLOSED"
  THEN SubmitOutcome("SESSION_CLOSED", rows, 0, NULL)
  ELSE
    LET session == CHOOSE r \in sess : r.join_token = join_token
        is_guest == is_guest_flag \/ current_student = NULL
        submission_status == IF answers = NULL THEN "skipped" ELSE "completed"
        total_scores_ == IF submission_status = "completed" THEN "scores" ELSE "{}"
        guest_id == IF ~is_guest THEN NULL
                    ELSE IF guest_id_in # NULL THEN guest_id_in ELSE uuid4(rows)
        existing_submission == ExistingSubmission(rows, session.id, is_guest, guest_id_in,
                                                  current_student)
    IN IF is_guest /\ (student_name = NULL \/ student_name = " ")
       THEN SubmitOutcome("GUEST_NAME_REQUIRED", rows, 0, NULL)
       ELSE IF existing_submission # {}
       THEN LET found == CHOOSE r \in existing_submission : TRUE
            IN SubmitOutcome("ok",
                 {IF r = found
                  THEN [r EXCEPT !.answers_json = answers,
                                 !.total_scores = total_scores_,
                                 !.status = submission_status]
                  ELSE r : r \in rows},
                 found.id,
                 IF is_guest THEN found.guest_id ELSE NULL)
       ELSE LET submission == [id |-> FreshId(rows),
                               session_id |-> session.id,
                               course_id |-> NULL,
                               student_id |-> IF ~is_guest THEN current_student ELSE NULL,
                               guest_id |-> guest_id,
                               guest_name |-> IF is_guest THEN student_name ELSE NULL,
                               mood |-> None,
                               answers_json |-> answers,
                               total_scores |-> total_scores_,
                               is_baseline_update |-> FALSE,
                               status |-> submission_status]
            IN IF SubmissionsOK(rows \cup {submission})
               THEN SubmitOutcome("ok", rows \cup {submission}, submission.id, guest_id)
               ELSE SubmitOutcome("IntegrityError", rows, 0, NULL)

\* what the public requests may carry: a guest with or without answers and
\* with or without a guest id it has seen, a logged-in student who submits
\* as a guest, a guest without a name, and a logged-in student
AnswerPayloads == {NULL, "answers"}
GuestIds(rows) == {NULL} \cup {r.guest_id : r \in rows}

Request(current_student, is_guest, student_name, answers, guest_id) ==
  [current_student |-> current_student, is_guest |-> is_guest, student_name |-> student_name,
   answers |-> answers, guest_id |-> guest_id]

GuestRequests(rows) ==
  {Request(NULL, TRUE, "Ann", answers, guest_id) :
     answers \in AnswerPayloads, guest_id \in GuestIds(rows)}
    \cup {Request("s1", TRUE, "Ann", "answers", NULL)}

PublicRequests(rows) ==
  GuestRequests(rows)
    \cup {Request(NULL, FALSE, " ", NULL, NULL)}
    \cup {Request("s1", FALSE, NULL, answers, NULL) : answers \in AnswerPayloads}

Submitted(sess, rows, join_token, request) ==
  submit_survey(sess, rows, join_token, request.current_student, request.is_guest,
                request.student_name, request.answers, request.guest_id)

ClassReply(op, status, id) == [NoResult EXCEPT !.op = op, !.status = status, !.id = id]

CreateSession(c, requested_require_survey) ==
  /\ UnusedSessions(class_sessions) # {}
  /\ LET out == create_session(courses, course_rows, class_sessions, c, requested_require_survey)
     IN /\ course_rows' = out.course_rows
        /\ class_sessions' = out.class_sessions
        /\ reply' = ClassReply("create_session", out.status, 0)
  /\ UNCHANGED <<subs, profiles, tx, pcalls>>
  /\ UNCHANGED recVars
  /\ UNCHANGED surveyVars

UpdateCourse(c, baseline_survey_id) ==
  /\ LET out == update_course(courses, course_rows, class_sessions, c, baseline_survey_id)
     IN /\ course_rows' = out.course_rows
        /\ class_sessions' = out.class_sessions
        /\ reply' = ClassReply("update_course", out.status, 0)
  /\ UNCHANGED <<subs, profiles, tx, pcalls>>
  /\ UNCHANGED recVars
  /\ UNCHANGED surveyVars

CloseSession(session_id) ==
  /\ LET out == close_session(course_rows, class_sessions, session_id)
     IN /\ course_rows' = out.course_rows
        /\ class_sessions' = out.class_sessions
        /\ reply' = ClassReply("close_session", out.status, 0)
  /\ UNCHANGED <<subs, profiles, tx, pcalls>>
  /\ UNCHANGED recVars
  /\ UNCHANGED surveyVars

Join(join_token) ==
  /\ reply' = ClassReply("join", get_session_by_token(class_sessions, join_token), 0)
  /\ UNCHANGED <<subs, profiles, tx, pcalls>>
  /\ UNCHANGED recVars
  /\ UNCHANGED surveyVars
  /\ UNCHANGED classVars

Submit(join_token) ==
  /\ \E request \in PublicRequests(subs) :
       LET out == Submitted(class_sessions, subs, join_token, request)
       IN /\ Cardinality(out.subs) <= MaxSubs
          /\ subs' = out.subs
          /\ reply' = ClassReply("submit", out.status, out.submission_id)
  /\ UNCHANGED <<profiles, tx, pcalls>>
  /\ UNCHANGED recVars
  /\ UNCHANGED surveyVars
  /\ UNCHANGED classVars

ClassNext ==
  \/ \E c \in Courses : create_course(c)
  \/ \E c \in Courses, baseline_survey_id \in SurveyTemplates \cup {NULL} :
        UpdateCourse(c, baseline_survey_id)
  \/ \E c \in Courses, requested_require_survey \in BOOLEAN :
        CreateSession(c, requested_require_survey)
  \/ \E i \in DOMAIN SessionOrder : CloseSession(SessionOrder[i])
  \/ \E join_token \in JoinTokens : Join(join_token)

\* the public requests on the sessions of a course
PublicNext ==
  \/ \E c \in Courses : create_course(c)
  \/ \E c \in Courses, requested_require_survey \in BOOLEAN :
        CreateSession(c, requested_require_survey)
  \/ \E i \in DOMAIN SessionOrder : CloseSession(SessionOrder[i])
  \/ \E join_token \in JoinTokens : Join(join_token)
  \/ \E join_token \in JoinTokens : Submit(join_token)

\* ------------------------------------------------------------------ surveys
\* the characters of the category names, in code point order
CharOrder == <<"A", "V">>

CharRank(ch) == CHOOSE i \in DOMAIN CharOrder : CharOrder[i] = ch

\* Python's < on strings
RECURSIVE StrLess(_, _)
StrLess(a, b) ==
  IF b = <<>> THEN FALSE
  ELSE IF a = <<>> THEN TRUE
  ELSE IF Head(a) = Head(b) THEN StrLess(Tail(a), Tail(b))
  ELSE CharRank(Head(a)) < CharRank(Head(b))

\* a dict is the sequence of its <<key, value>> items, in insertion order
Keys(d) == {d[i][1] : i \in DOMAIN d}

Get(d, k) == d[CHOOSE i \in DOMAIN d : d[i][1] = k][2]

\* the loop of determine_learning_style; best is <<>> while best_score is
\* None, <<best_category, best_score>> afterwards
RECURSIVE BestOf(_, _)
BestOf(items, best) ==
  IF items = <<>> THEN best
  ELSE LET category == Head(items)[1]
           score == Head(items)[2]
       IN BestOf(Tail(items),
                 IF \/ best = <<>>
                    \/ score > best[2]
                    \/ /\ score = best[2]
                       /\ StrLess(category, IF best[1] # EmptyStr THEN best[1] ELSE category)
                 THEN <<category, score>>
                 ELSE best)

\* a choice that keeps the first category seen at the maximum
determine_learning_style_FirstSeen(totals) ==
  IF totals = <<>> THEN None
  ELSE LET top == CHOOSE i \in DOMAIN totals :
                    /\ \A j \in DOMAIN totals : totals[j][2] <= totals[i][2]
                    /\ \A j \in DOMAIN totals : totals[j][2] = totals[i][2] => i <= j
       IN totals[top][1]

determine_learning_style(totals) ==
  IF totals = <<>> THEN None ELSE BestOf(totals, <<>>)[1]

\* str(): None prints as 'None'
str(v) == IF v = NULL THEN "None" ELSE v

\* a or b on optional strings
Or(a, b) == IF a # NULL /\ a # "" THEN a ELSE b

Option(id, label, text, scores) == [id |-> id, label |-> label, text |-> text, scores |-> scores]

Question(id, options) == [id |-> id, options |-> options]

\* extract_learning_style_categories, before sorting
CategorySet(questions) ==
  UNION {UNION {Keys(questions[q].options[o].scores) : o \in DOMAIN questions[q].options}
           : q \in DOMAIN questions}

\* sorted()
RECURSIVE Sorted(_)
Sorted(S) ==
  IF S = {} THEN <<>>
  ELSE LET least == CHOOSE x \in S : \A y \in S \ {x} : StrLess(x, y)
       IN <<least>> \o Sorted(S \ {least})

extract_learning_style_categories(questions) == Sorted(CategorySet(questions))

\* totals[category] += score, the category being added first when missing
AddScore(totals, category, score) ==
  IF category \in Keys(totals)
  THEN [i \in DOMAIN totals |->
          IF totals[i][1] = category THEN <<category, totals[i][2] + score>> ELSE totals[i]]
  ELSE Append(totals, <<category, score>>)

RECURSIVE AddScores(_, _)
AddScores(totals, scores) ==
  IF scores = <<>> THEN totals
  ELSE AddScores(AddScore(totals, Head(scores)[1], Head(scores)[2]), Tail(scores))

\* the id an option is compared by: its own, or one made of its position
OptionId(question_id, option, index) ==
  IF Or(option.id, NULL) # NULL THEN option.id
  ELSE question_id \o "_opt_" \o ToString(index)

\* the inner loop of compute_total_scores: the scores of the first option
\* the answer selects are added, the options after it are not looked at
RECURSIVE ScoreOptions(_, _, _, _, _)
ScoreOptions(totals, question_id, options, index, selected_answer) ==
  IF index >= Len(options) THEN totals
  ELSE LET option == options[index + 1]
           option_id == OptionId(question_id, option, index)
           option_label == Or(option.label, option.text)
       IN IF selected_answer \notin {str(option_id), str(option_label)}
          THEN ScoreOptions(totals, question_id, options, index + 1, selected_answer)
          ELSE AddScores(totals, option.scores)

RECURSIVE ScoreQuestions(_, _, _)
ScoreQuestions(totals, questions, answers) ==
  IF questions = <<>> THEN totals
  ELSE LET question == Head(questions)
           question_id == Or(question.id, NULL)
           selected_answer == IF question_id = NULL THEN NULL ELSE answers[question_id]
       IN ScoreQuestions(
            IF question_id = NULL \/ Or(selected_answer, NULL) = NULL THEN totals
            ELSE ScoreOptions(totals, question_id, question.options, 0, selected_answer),
            Tail(questions), answers)

compute_total_scores(survey_snapshot_, answers_) ==
  LET categories == extract_learning_style_categories(survey_snapshot_)
      totals == [i \in DOMAIN categories |-> <<categories[i], 0>>]
  IN ScoreQuestions(totals, survey_snapshot_, answers_)

\* the inner loop of compute_total_scores again, for the position (from 1)
\* of the option whose scores it adds, 0 when it adds none
RECURSIVE ScoredOption(_, _, _, _)
ScoredOption(question_id, options, index, selected_answer) ==
  IF index >= Len(options) THEN 0
  ELSE LET option == options[index + 1]
           option_id == OptionId(question_id, option, index)
           option_label == Or(option.label, option.text)
       IN IF selected_answer \notin {str(option_id), str(option_label)}
          THEN ScoredOption(question_id, options, index + 1, selected_answer)
          ELSE index + 1

NoDetails == [q \in {} |-> NULL]
NoOption == [selected_option_id |-> NULL, selected_option_text |-> NULL]

\* the inner loop of build_answer_details: every option is looked at and
\* each one the answer selects replaces the selection
RECURSIVE DetailOptions(_, _, _, _, _)
DetailOptions(chosen, question_id, options, option_index, selected) ==
  IF option_index >= Len(options) THEN chosen
  ELSE LET option == options[option_index + 1]
           option_id == OptionId(question_id, option, option_index)
           option_text == Or(option.text, Or(option.label, str(option_id)))
           option_id_str == str(option_id)
       IN DetailOptions(
            IF str(selected) \in {option_id_str, str(option_text)}
            THEN [selected_option_id |-> option_id_str, selected_option_text |-> str(option_text)]
            ELSE chosen,
            question_id, options, option_index + 1, selected)

RECURSIVE DetailQuestions(_, _, _)
DetailQuestions(details, questions, answers) ==
  IF questions = <<>> THEN details
  ELSE LET question == Head(questions)
           question_id == Or(question.id, NULL)
           selected == IF question_id = NULL THEN NULL ELSE answers[question_id]
           chosen == DetailOptions(NoOption, question_id, question.options, 0, selected)
       IN DetailQuestions(
            IF question_id = NULL \/ Or(selected, NULL) = NULL THEN details
            ELSE IF Or(chosen.selected_option_id, NULL) # NULL
                 THEN (question_id :> chosen) @@ details
                 ELSE details,
            Tail(questions), answers)

build_answer_details(survey_snapshot_, answers_) ==
  DetailQuestions(NoDetails, survey_snapshot_, answers_)

CategoryNames == {EmptyStr, Auditory, <<"A", "V">>, Visual}

QuestionIds == {"q1", "q2"}

\* the option lists of the questions: options compared by id, by label, by
\* text, by a generated id, and an option with a label and a text
OptionLists ==
  {<<Option("o1", NULL, NULL, <<<<Visual, 2>>>>),
     Option(NULL, "B", NULL, <<<<Auditory, 1>>, <<Visual, 1>>>>)>>,
   <<Option(NULL, NULL, NULL, <<<<Auditory, 2>>>>),
     Option("o1", NULL, "T", <<<<Visual, 1>>>>)>>,
   <<Option("o2", "B", "T", <<<<Auditory, 1>>>>),
     Option("o1", "B", NULL, <<>>)>>}

Questions ==
  {Question(id, options) : id \in QuestionIds \cup {NULL}, options \in OptionLists}

Snapshots == SeqsUpTo(Questions, MaxQuestions)

AnswerValues == {NULL, "", "o1", "B", "T", "None", "q1_opt_0"}

AnswerMaps == [QuestionIds -> AnswerValues]

\* compute_total_scores called on the snapshot and the answers at hand,
\* and determine_learning_style on its result
ScoreSurvey ==
  /\ total_scores' = compute_total_scores(survey_snapshot, survey_answers)
  /\ determined' = determine_learning_style(total_scores')
  /\ answer_details' = build_answer_details(survey_snapshot, survey_answers)
  /\ UNCHANGED <<survey_snapshot, survey_answers>>
  /\ UNCHANGED recVars
  /\ UNCHANGED ledgerVars
  /\ UNCHANGED classVars


\* the totals a caller may hand over: any order of any categories
TotalsInputs ==
  {t \in SeqsUpTo(CategoryNames \X (0..MaxScore), MaxCats) :
     \A i, j \in DOMAIN t : i # j => t[i][1] # t[j][1]}

\* determine_learning_style called on totals
DetermineStyle(totals) ==
  /\ total_scores' = totals
  /\ determined' = determine_learning_style(totals)
  /\ UNCHANGED <<survey_snapshot, survey_answers, answer_details>>
  /\ UNCHANGED recVars
  /\ UNCHANGED ledgerVars
  /\ UNCHANGED classVars

InitSurvey ==
  /\ survey_snapshot = <<>>
  /\ survey_answers = [q \in QuestionIds |-> NULL]
  /\ total_scores = <<>>
  /\ determined = None
  /\ answer_details = NoDetails

SurveyNext ==
  \/ \E totals \in TotalsInputs : DetermineStyle(totals)

ScoringNext == ScoreSurvey

\* ------------------------------------------------------------------ inputs
RowStyles == {None, Visual}
RowMoods == {None, sad}
SeedRows == {Row(c, ls, md, a, FALSE) :
               c \in Courses, ls \in RowStyles, md \in RowMoods, a \in ActivityIds}

Mappings == {Mapping(ls, md, a) : ls \in MappingStyles, md \in MappingMoods, a \in ActivityIds}

Batches == SeqsUpTo(Mappings, MaxBatch)

\* mappings of a manual edit, valid ones and ones with an unknown
\* learning style or an unknown mood; a2 may be missing from the catalog
EditMappings ==
  {Mapping(Visual, sad, "a1"), Mapping(Visual, sad, "a2"), Mapping(None, sad, "a2"),
   Mapping(Unknown, sad, "a1"), Mapping(Visual, Unknown, "a1")}

EditBatches == SeqsUpTo(EditMappings, MaxEdit)

PatchedPairs == SeqsUpTo({<<ls, md, a>> : ls \in RowStyles, md \in RowMoods, a \in ActivityIds},
                         MaxBatch)

\* ------------------------------------------------------------------ specification
InitRecs ==
  /\ catalog = <<>>
  /\ envId \in {NoActivity, "a1"}
  /\ courses = {}
  /\ recs = EmptyBag
  /\ ensured = {}
  /\ last = NoCall

InitClass ==
  /\ course_rows = [c \in Courses |-> CourseRow(NULL, FALSE)]
  /\ class_sessions = {}

Init == InitRecs /\ InitLedger /\ InitSurvey /\ InitClass

CatalogNext(tagSets) ==
  \/ \E a \in ActivityIds, tags \in tagSets : create_activity(a, tags)
  \/ \E a \in ActivityIds, tags \in tagSets : update_activity(a, tags)

\* the handlers and the maintainer, on a store only they write
AppNext ==
  \/ CatalogNext({{}})
  \/ \E c \in Courses : create_course(c)
  \/ \E c \in Courses, mappings \in Batches : upsert_course_recommendations(c, mappings)
  \/ \E c \in Courses, pairs \in PatchedPairs : EnsureDefaults(c, pairs)

SpecApp == Init /\ [][AppNext]_vars

\* manual mapping edits, valid and invalid, on the courses of the handlers
EditNext ==
  \/ CatalogNext({{}})
  \/ \E c \in Courses : create_course(c)
  \/ \E c \in Courses, mappings \in EditBatches : upsert_course_recommendations(c, mappings)

SpecEdit == Init /\ [][EditNext]_vars

\* the ledger calls of one request handler after the other
InitNoEnv == Init /\ envId = NoActivity

SpecLedgerSeq == InitNoEnv /\ [][LedgerNext({"h1"}, Sessions)]_vars

\* the ledger calls of two request handlers, interleaved
SpecLedger == InitNoEnv /\ [][LedgerNext(Handlers, {"x1"})]_vars

\* courses, their sessions and the public requests on them
SpecClass == InitNoEnv /\ [][ClassNext]_vars

SpecPublic == InitNoEnv /\ [][PublicNext]_vars

\* the survey scoring functions on the inputs of their callers
SpecSurvey == InitNoEnv /\ [][SurveyNext]_vars

\* a snapshot and the answers of a participant, not scored yet
InitScoring ==
  /\ InitRecs /\ envId = NoActivity
  /\ InitLedger
  /\ InitClass
  /\ survey_snapshot \in Snapshots
  /\ survey_answers \in AnswerMaps
  /\ total_scores = <<>>
  /\ determined = None
  /\ answer_details = NoDetails

SpecScoring == InitScoring /\ [][ScoringNext]_vars

\* the resolver, on a store holding any rows the table's constraints admit
Next ==
  \/ CatalogNext(TagSets)
  \/ \E c \in Courses : create_course(c)
  \/ \E r \in SeedRows : SeedRecommendation(r)
  \/ \E c \in Courses, mood \in MoodInputs, style \in StyleInputs : Resolve(c, mood, style)

Spec == Init /\ [][Next]_vars

TypeOK ==
  /\ courses \subseteq Courses
  /\ ensured \subseteq courses
  /\ BagCardinality(recs) <= MaxRecs
  /\ \A r \in BagToSet(recs) : r.activity_id \in CatalogIds(catalog)

\* ------------------------------------------------------------------ properties
RowsOf(c) == {r \in BagToSet(recs) : r.course_id = c}

\* the wildcard values of the key normalization rule
IsWildcard(v) == v \in {None, EmptyStr} \cup WildcardTokens

\* the rows stored under the key (style, mood), a wildcard selecting the
\* rows stored with no value
RowsFor(c, style, mood) ==
  {r \in RowsOf(c) :
     /\ IF IsWildcard(style) THEN r.learning_style \in {None, EmptyStr} ELSE r.learning_style = style
     /\ IF IsWildcard(mood) THEN r.mood \in {None, EmptyStr} ELSE r.mood = mood}

Supplied(style) == style # None /\ style # EmptyStr

Answers(c, mood, style) == get_recommended_activity(recs, catalog, envId, c, mood, style)

NoKeyedRow(c, mood, style) ==
  /\ Supplied(style) => RowsFor(c, style, mood) = {} /\ RowsFor(c, style, None) = {}
  /\ RowsFor(c, None, mood) = {}

C5_RandomCourseActivity ==
  \A c \in courses, mood \in MoodInputs, style \in StyleInputs :
    (NoKeyedRow(c, mood, style) /\ RowsOf(c) # {}) =>
      \A x \in Answers(c, mood, style) :
        /\ x.tier = "random-course-activity"
        /\ x.activity \in {r.activity_id : r \in RowsOf(c)}

\* the manually curated rows of a table
ManualPart(db) == [r \in {x \in BagToSet(db) : ~x.is_auto} |-> CopiesIn(r, db)]

UsablePairs == {pairs \in PatchedPairs :
                  \A i \in DOMAIN pairs : ActivityExists(catalog, pairs[i][3])}

\* the tables one run of the maintainer may leave when called on its own
EnsureRuns(db, c, pairs) ==
  {commit(e).db : e \in ensure_defaults_for_course(OpenSession(db), catalog, envId, c, pairs)}

\* C2: a run of ensure_defaults_for_course leaves every row with
\* is_auto = false as it was (key, activity and flag), whatever the patched
\* pairs, both when called on its own and behind a manual edit, where the
\* rows the edit has just added count as well
C2_ManualRowsKept ==
  \A c \in courses :
    /\ \A pairs \in UsablePairs :
         \A after \in EnsureRuns(recs, c, pairs) : ManualPart(after) = ManualPart(recs)
    /\ \A mappings \in Batches :
         \A s \in _apply_recommendation_mappings({OpenSession(recs)}, catalog, c, mappings, FALSE, TRUE) :
           s.err = "ok" =>
             \A e \in ensure_defaults_for_course(s, catalog, envId, c, s.pairs) :
               commit(e).err = "ok" => ManualPart(commit(e).db) = ManualPart(s.db (+) s.pending)

\* the maintainer has run on a course that keeps a manual (null, sad) row
\* next to auto-managed rows pointing at another activity
C2_Witness ==
  /\ last.op = "ensure"
  /\ \E r1, r2 \in RowsOf(last.course) :
       /\ ~r1.is_auto /\ r1.learning_style = None /\ r1.mood = sad
       /\ r2.is_auto /\ r2.activity_id # r1.activity_id

\* C6: once ensure_defaults_for_course has run for a course with a
\* non-empty catalog, no call for that course is answered 'system-default'
\* or 'none'
C6_AlwaysCourseRow ==
  \A c \in ensured, mood \in MoodInputs, style \in StyleInputs :
    \A x \in Answers(c, mood, style) :
      /\ x.tier \notin {"system-default", "none"}
      /\ x.activity \in {r.activity_id : r \in RowsOf(c)}

\* the stored key of a row, the wildcard being one value
StoredKey(r) ==
  <<r.course_id,
    IF _nullish_filter(r.learning_style) THEN None ELSE r.learning_style,
    IF _nullish_filter(r.mood) THEN None ELSE r.mood>>

\* C7: at most one row per (course, learning_style, mood) key, the
\* wildcard counting as one key value
C7_OneRowPerKey ==
  \A r1 \in BagToSet(recs) :
    /\ CopiesIn(r1, recs) = 1
    /\ \A r2 \in BagToSet(recs) : StoredKey(r1) = StoredKey(r2) => r1 = r2

\* C10: a second run of ensure_defaults_for_course with the same course
\* and pairs and an unchanged catalog leaves the table of the first run
C10_Idempotent ==
  \A c \in courses, pairs \in UsablePairs :
    \A once \in EnsureRuns(recs, c, pairs) :
      \A twice \in EnsureRuns(once, c, pairs) : twice = once

\* the participant a caller's arguments name, and the one a row belongs to
ParticipantOf(who) ==
  IF who.student # NULL THEN Participant(who.student, NULL) ELSE Participant(NULL, who.guest_id)

RowParticipant(r) == Participant(r.student_id, r.guest_id)

CurrentRows(rows, who) == get_current_profile(rows, Course1, who.student, who.guest_id)

\* C3: every update_course_student_profile call of a sequence succeeds;
\* after the n-th call for a participant n profile rows exist for it,
\* exactly one of them is current, it references the submission of that
\* call, and get_current_profile returns it
C3_ProfileVersions ==
  [][\A who \in Participants :
       pcalls'[who] # pcalls[who] =>
         /\ reply'.status = "ok"
         /\ Cardinality(ProfileQuery(profiles', Course1, who)) = pcalls'[who]
         /\ \E r \in profiles' :
              /\ r.id = reply'.id
              /\ r.latest_submission_id = tx["h1"].sub
              /\ {x \in ProfileQuery(profiles', Course1, who) : x.is_current} = {r}
              /\ CurrentRows(profiles', who) = {r}]_vars

OnePerKey(rows) ==
  \A r1, r2 \in rows :
    (r1.session_id = r2.session_id /\ RowParticipant(r1) = RowParticipant(r2)) => r1 = r2

\* C4: there is at most one Submission row per (session, participant), and
\* an upsert_submission call for a key that has a row returns that row,
\* adds none, and leaves the row with the mood of the call
C4_OneSubmissionPerKey ==
  [][/\ OnePerKey(subs')
     /\ \A h \in Handlers, r \in subs :
          (/\ tx[h].pc = "upsert" /\ tx'[h] = Idle
           /\ ParticipantOf(tx[h].who) \in Participants
           /\ r.session_id = tx[h].session
           /\ RowParticipant(r) = ParticipantOf(tx[h].who))
          => /\ reply' = [op |-> "upsert", status |-> "ok", id |-> r.id]
             /\ {x.id : x \in subs'} = {x.id : x \in subs}
             /\ \E x \in subs' : x.id = r.id /\ x.mood = tx[h].form.mood]_vars

\* a submission sent as a baseline survey, which a profile took its scores
\* from, has been sent again as a mood check-in with another mood: the call
\* returned the same record, which is the only one of its key
C4_Witness ==
  /\ reply.op = "upsert" /\ reply.status = "ok"
  /\ \E r \in subs, p \in profiles :
       /\ r.id = reply.id
       /\ p.latest_submission_id = r.id
       /\ p.profile_scores_json = "scores"
       /\ r.mood = happy /\ ~r.is_baseline_update
       /\ \A x \in subs : (x.session_id = r.session_id /\ RowParticipant(x) = RowParticipant(r))
                            => x = r

\* C8: under any interleaving of two update_course_student_profile calls,
\* no committed state has two current profile rows for one (course,
\* participant)
C8_OneCurrentProfile ==
  \A who \in Participants : Cardinality(CurrentRows(profiles, who)) <= 1

\* two calls for a participant without a profile ran their mark steps before
\* either inserted: the first insert is committed, the second was rejected
C8_Witness ==
  /\ reply = [op |-> "profile", status |-> "IntegrityError", id |-> 0]
  /\ Cardinality(profiles) = 1
  /\ \A r \in profiles : r.is_current
  /\ \A who \in Participants : pcalls[who] \in {0, 2}

\* C9: when two upsert_submission calls for one missing (session,
\* participant) both take the insert path, both complete without an error
\* and one Submission row remains for the key
C9_InsertRaceRecovered ==
  [][\A h \in Handlers :
       (/\ tx[h].pc = "upsert" /\ tx'[h] = Idle
        /\ tx[h].found = 0
        /\ ParticipantOf(tx[h].who) \in Participants
        /\ tx[h].who.student = NULL => tx[h].guest_name # NULL)
       => /\ reply'.status = "ok"
          /\ Cardinality({r \in subs' : /\ r.session_id = tx[h].session
                                        /\ RowParticipant(r) = ParticipantOf(tx[h].who)}) = 1]_vars

\* C11: a wildcard token ('', '*', 'any', 'ANY', 'default') given as the
\* mood, or as the learning style, is answered with the tier and the
\* activity of the call that gives None in its place
C11_WildcardsAreNull ==
  \A c \in courses, mood \in MoodInputs, style \in StyleInputs :
    \A w \in WildcardTokens \cup {EmptyStr} :
      /\ Answers(c, w, style) = Answers(c, None, style)
      /\ Answers(c, mood, w) = Answers(c, mood, None)

\* C12: an upsert_submission call that finds a record replaces its mood,
\* answers, total scores, baseline flag and status with the values of the
\* call and keeps its id, session and participant; every record carries
\* the status 'completed'
C12_UpdateReplacesFields ==
  [][/\ \A x \in subs' : x.status = "completed"
     /\ \A h \in Handlers :
          (tx[h].pc = "upsert" /\ tx'[h] = Idle /\ tx[h].found # 0)
          => \E r \in subs, x \in subs' :
               /\ r.id = tx[h].found /\ x.id = r.id
               /\ reply'.id = r.id
               /\ x.session_id = r.session_id
               /\ x.student_id = r.student_id
               /\ x.guest_id = r.guest_id
               /\ x.guest_name = r.guest_name
               /\ x.mood = tx[h].form.mood
               /\ x.answers_json = tx[h].form.answers
               /\ x.total_scores = tx[h].form.total_scores
               /\ x.is_baseline_update = tx[h].form.is_baseline_update
               /\ subs' = (subs \ {r}) \cup {x}]_vars

\* a record sent as a baseline survey, from which a profile was taken, was
\* sent again as a mood check-in: it is left without answers, without
\* scores and with the baseline flag off
C12_Witness ==
  /\ reply.op = "upsert" /\ reply.status = "ok"
  /\ \E r \in subs, p \in profiles :
       /\ r.id = reply.id
       /\ p.latest_submission_id = r.id
       /\ p.profile_scores_json # NULL
       /\ r.answers_json = NULL /\ r.total_scores = NULL
       /\ ~r.is_baseline_update
       /\ r.status = "completed"

\* C13: no step of the ledger removes a profile row or changes a row's
\* category, score snapshot or submission reference, and no row that is
\* not current becomes current
C13_ProfilesAppendOnly ==
  [][\A r \in profiles :
       \E x \in profiles' :
         /\ x.id = r.id
         /\ x.course_id = r.course_id
         /\ x.student_id = r.student_id
         /\ x.guest_id = r.guest_id
         /\ x.profile_category = r.profile_category
         /\ x.profile_scores_json = r.profile_scores_json
         /\ x.latest_submission_id = r.latest_submission_id
         /\ x.is_current => r.is_current]_vars

\* a participant with a stale profile row and a newer current one
C13_Witness ==
  \E r1, r2 \in profiles :
    /\ RowParticipant(r1) = RowParticipant(r2)
    /\ ~r1.is_current /\ r2.is_current
    /\ r1.id < r2.id
    /\ reply.op = "profile" /\ reply.id = r2.id

\* C14: neither step of an upsert_submission call changes a profile row,
\* and get_current_profile answers every participant after the call as it
\* did before
C14_UpsertKeepsProfiles ==
  [][\A h \in Handlers :
       (tx'[h] # tx[h] /\ (tx[h].pc = "upsert" \/ tx'[h].pc = "upsert"))
       => /\ profiles' = profiles
          /\ \A who \in Participants : CurrentRows(profiles', who) = CurrentRows(profiles, who)]_vars

\* a mood check-in has been stored for a participant who has a current
\* profile
C14_Witness ==
  /\ reply.op = "upsert" /\ reply.status = "ok"
  /\ \E r \in subs :
       /\ r.id = reply.id
       /\ ~r.is_baseline_update
       /\ CurrentRows(profiles, RowParticipant(r)) # {}

\* the lists of patched triples a caller of the maintainer may hand over
PairLists ==
  {pairs \in SeqsUpTo({<<ls, md, a>> : ls \in RowStyles, md \in RowMoods, a \in ActivityIds},
                      MaxPairs) :
     \A i \in DOMAIN pairs : ActivityExists(catalog, pairs[i][3])}

\* the activity of the last triple of pairs whose i-th component is k
LastActivity(pairs, i, k) ==
  LET at == {j \in DOMAIN pairs : pairs[j][i] = k}
  IN pairs[CHOOSE j \in at : \A j2 \in at : j2 <= j][3]

\* in the table after, every mood and style named by pairs has its default
\* row, and the auto-managed ones point at the last activity named for it
DefaultsFollow(after, c, pairs) ==
  \A i \in DOMAIN pairs :
    LET style == pairs[i][1]
        mood == pairs[i][2]
        moodRows == {r \in BagToSet(after) :
                       r.course_id = c /\ r.learning_style \in {None, EmptyStr} /\ r.mood = mood}
        styleRows == {r \in BagToSet(after) :
                        r.course_id = c /\ r.learning_style = style /\ r.mood \in {None, EmptyStr}}
    IN /\ ~IsWildcard(mood) =>
            /\ moodRows # {}
            /\ \A r \in moodRows : r.is_auto => r.activity_id = LastActivity(pairs, 2, mood)
       /\ ~IsWildcard(style) =>
            /\ styleRows # {}
            /\ \A r \in styleRows : r.is_auto => r.activity_id = LastActivity(pairs, 1, style)

\* C15: after a run of ensure_defaults_for_course(course, pairs) that
\* raised no error, every non-wildcard mood of pairs has a (null, mood) row
\* and every non-wildcard style a (style, null) row, and such a row, when
\* auto-managed, carries the activity of the last triple naming that mood
\* or style; both when the maintainer is called on its own and behind a
\* manual edit
C15_DefaultsFollowPairs ==
  \A c \in courses :
    /\ \A pairs \in PairLists :
         \A e \in ensure_defaults_for_course(OpenSession(recs), catalog, envId, c, pairs) :
           commit(e).err = "ok" => DefaultsFollow(commit(e).db, c, pairs)
    /\ \A mappings \in Batches :
         \A s \in _apply_recommendation_mappings({OpenSession(recs)}, catalog, c, mappings, FALSE, TRUE) :
           s.err = "ok" =>
             \A e \in ensure_defaults_for_course(s, catalog, envId, c, s.pairs) :
               commit(e).err = "ok" => DefaultsFollow(commit(e).db, c, s.pairs)

\* the maintainer has run and the course holds an auto-managed (null, sad)
\* row and an auto-managed (Visual, null) row with one activity
C15_Witness ==
  /\ last.op = "ensure"
  /\ \E r1, r2 \in RowsOf(last.course) :
       /\ r1.is_auto /\ r1.learning_style = None /\ r1.mood = sad
       /\ r2.is_auto /\ r2.learning_style = Visual /\ r2.mood = None
       /\ r1.activity_id = r2.activity_id

GlobalRows(db, c) ==
  {r \in BagToSet(db) :
     r.course_id = c /\ r.learning_style \in {None, EmptyStr} /\ r.mood \in {None, EmptyStr}}

\* C16: after ensure_defaults_for_course has run while a system default
\* activity exists, the course has a (null, null) row; where it had none,
\* the row is auto-managed and points at the system default activity, and
\* an auto-managed row it had points at that activity afterwards
C16_GlobalDefaultTracks ==
  \A c \in courses, pairs \in UsablePairs :
    LET activity == pick_system_default_activity(catalog, envId)
    IN activity # NoActivity =>
         \A e \in ensure_defaults_for_course(OpenSession(recs), catalog, envId, c, pairs) :
           e.err = "ok" =>
             /\ GlobalRows(e.db, c) # {}
             /\ GlobalRows(recs, c) = {} =>
                  GlobalRows(e.db, c) = {Row(c, None, None, activity, TRUE)}
             /\ \A r \in GlobalRows(e.db, c) : r.is_auto => r.activity_id = activity

\* C17: pick_system_default_activity returns the configured activity when
\* its id is configured and in the catalog; otherwise the most recently
\* updated activity carrying the reserved tag; otherwise the most recently
\* updated activity; and no activity exactly when the catalog is empty
C17_SystemDefaultOrder ==
  LET picked == pick_system_default_activity(catalog, envId)
      tagged == {i \in DOMAIN catalog : SYSTEM_DEFAULT_ACTIVITY_TAG \in catalog[i].tags}
  IN /\ picked = NoActivity <=> catalog = <<>>
     /\ (envId # NoActivity /\ \E i \in DOMAIN catalog : catalog[i].id = envId) => picked = envId
     /\ (envId = NoActivity \/ \A i \in DOMAIN catalog : catalog[i].id # envId) =>
          /\ \A i \in tagged : (\A j \in tagged : i <= j) => picked = catalog[i].id
          /\ (tagged = {} /\ catalog # <<>>) => picked = catalog[1].id

\* no activity is configured, the newest activity has no tag, an older one
\* has it, and a call was answered with the older one as system default
C17_Witness ==
  /\ envId = NoActivity
  /\ Len(catalog) = 2
  /\ SYSTEM_DEFAULT_ACTIVITY_TAG \notin catalog[1].tags
  /\ SYSTEM_DEFAULT_ACTIVITY_TAG \in catalog[2].tags
  /\ last.op = "resolve" /\ last.tier = "system-default"
  /\ last.activity = catalog[2].id

\* C18: for non-empty totals determine_learning_style returns a category
\* whose total is maximal and whose name is the smallest, in string order,
\* of the categories at the maximum, in whatever order the map lists them;
\* for empty totals it returns no category
C18_LargestTotalSmallestName ==
  IF total_scores = <<>> THEN determined = None
  ELSE \E i \in DOMAIN total_scores :
         /\ determined = total_scores[i][1]
         /\ \A j \in DOMAIN total_scores :
              /\ total_scores[j][2] <= total_scores[i][2]
              /\ (j # i /\ total_scores[j][2] = total_scores[i][2])
                   => StrLess(determined, total_scores[j][1])

\* three categories tie at the maximum and the map lists the smallest
\* name last
C18_Witness ==
  /\ Len(total_scores) = 3
  /\ \A i \in DOMAIN total_scores : total_scores[i][2] = MaxScore
  /\ total_scores[3][1] = determined
  /\ StrLess(total_scores[3][1], total_scores[2][1])
  /\ StrLess(total_scores[2][1], total_scores[1][1])

\* the answer names the option: by its id (its own, or the one made of its
\* position when it has none) or by its label, or its text when it has no
\* label
Names(answer, question_id, option, index) ==
  \/ answer = (IF option.id # NULL THEN option.id
               ELSE question_id \o "_opt_" \o ToString(index))
  \/ option.label # NULL /\ answer = option.label
  \/ option.label = NULL /\ option.text # NULL /\ answer = option.text

ScoreIn(scores, category) == IF category \in Keys(scores) THEN Get(scores, category) ELSE 0

\* what a question adds to a category: the score of the one option its
\* answer names, nothing when the answer is missing or names no option
Contribution(question, answers_, category) ==
  IF question.id = NULL THEN 0
  ELSE LET answer == answers_[question.id]
           named == {i \in DOMAIN question.options :
                       Names(answer, question.id, question.options[i], i - 1)}
       IN IF answer \in {NULL, ""} \/ named = {} THEN 0
          ELSE ScoreIn(question.options[Min(named)].scores, category)

RECURSIVE SumOver(_, _, _)
SumOver(questions, answers_, category) ==
  IF questions = <<>> THEN 0
  ELSE Contribution(Head(questions), answers_, category)
         + SumOver(Tail(questions), answers_, category)

\* C19: compute_total_scores returns a map that has every category of the
\* snapshot's questions and gives each category the sum, over the
\* questions, of its score in the one option the answer to the question
\* names; a missing answer or one that names no option adds nothing
C19_TotalsAreSums ==
  [][/\ CategorySet(survey_snapshot) \subseteq Keys(total_scores')
     /\ \A category \in Keys(total_scores') :
          Get(total_scores', category) = SumOver(survey_snapshot, survey_answers, category)]_vars

\* the rows upsert_submission leaves all carry exactly one of student_id
\* and guest_id
ExactlyOneIdentity(rows) == \A r \in rows : (r.student_id # NULL) # (r.guest_id # NULL)

\* the record a call assigns to is the caller's own
MutatesOwnRecord(rows, t) ==
  \A r \in rows : r.id = t.found => RowParticipant(r) = ParticipantOf(t.who)

\* C20: whatever student and guest_id a call of upsert_submission is given,
\* every Submission row it writes has exactly one of student_id and
\* guest_id set, and the record it mutates belongs to the calling
\* participant
C20_OneIdentityOwnRecord ==
  [][\A h \in Handlers :
       (tx[h].pc = "upsert" /\ tx'[h] = Idle) =>
         /\ ExactlyOneIdentity(subs')
         /\ MutatesOwnRecord(subs, tx[h])]_vars

\* a row of the course stored under exactly this key that carries the
\* answered activity
KeyedRow(c, style, mood, activity) ==
  \E r \in RowsOf(c) :
    r.activity_id = activity /\ r.learning_style = style /\ r.mood = mood

\* C25: an answer of tier 'style+mood' comes from a row whose learning
\* style and mood are the supplied ones, neither a wildcard; an answer of
\* tier 'style-default' comes from a row with the supplied style and a
\* wildcard mood
C25_TierNamesKey ==
  \A c \in courses, mood \in MoodInputs, style \in StyleInputs :
    \A x \in Answers(c, mood, style) :
      /\ x.tier = "style+mood" =>
           /\ ~IsWildcard(style) /\ ~IsWildcard(mood)
           /\ KeyedRow(c, strip(style), strip(mood), x.activity)
      /\ x.tier = "style-default" =>
           /\ ~IsWildcard(style)
           /\ \E m \in {None, EmptyStr} : KeyedRow(c, strip(style), m, x.activity)

\* C26: get_recommended_activity always answers, with tier 'none' exactly
\* when it answers no activity, and answers 'none' only when the activity
\* catalog is empty: with an activity in the catalog every call, for any
\* course, mood and style, answers some activity
C26_NoneOnlyWithoutActivities ==
  \A c \in Courses, mood \in MoodInputs, style \in StyleInputs :
    /\ Answers(c, mood, style) # {}
    /\ \A x \in Answers(c, mood, style) :
         /\ x.tier = "none" <=> x.activity = NoActivity
         /\ x.tier = "none" => catalog = <<>>
         /\ catalog # <<>> => x.activity \in CatalogIds(catalog)

\* a call on a course without rows answered with the newest activity, the
\* catalog holding no tagged activity and not the configured one
C26_Witness ==
  /\ last.op = "resolve"
  /\ last.tier = "system-default"
  /\ RowsOf(last.course) = {}
  /\ Tagged(catalog) = {}
  /\ ~ActivityExists(catalog, envId)
  /\ last.activity = catalog[1].id

\* the two normalizations give the string the same key
SameNormalKey(value) == _normalize_default(value) = _normalize_key(value)

\* every answer of the resolver for (style, mood) is the activity
FoundBy(db, c, style, mood, activity) ==
  \A x \in get_recommended_activity(db, catalog, envId, c, mood, style) :
    x.activity = activity

\* C30: _normalize_default and _normalize_key give every string of a
\* mapping the same key, so after a manual mapping edit has stored
\* (style, mood, activity) the resolver asked with the same style and mood
\* strings answers that activity, surrounding whitespace included
C30_WriterAndResolverAgree ==
  [][\A c \in Courses, mappings \in Batches :
       (upsert_course_recommendations(c, mappings) /\ last'.err = "ok") =>
         \A i \in DOMAIN mappings :
           /\ SameNormalKey(mappings[i].learning_style)
           /\ SameNormalKey(mappings[i].mood)
           /\ FoundBy(recs', c, mappings[i].learning_style, mappings[i].mood,
                      mappings[i].activity_id)]_vars

\* C27: after create_course has completed with an activity in the catalog,
\* the committed rows of the new course include an auto-managed
\* (null, null) row that points at the system default activity
C27_CreateCourseKeepsGlobalRow ==
  [][\A c \in Courses :
       (create_course(c) /\ catalog # <<>>) =>
         \E r \in BagToSet(recs') :
           /\ r.course_id = c
           /\ r.learning_style = None /\ r.mood = None
           /\ r.is_auto
           /\ r.activity_id = pick_system_default_activity(catalog, envId)]_vars


\* the mapping names a learning style or a mood the course does not have,
\* or an activity that does not exist
InvalidMapping(mapping) ==
  \/ ~IsWildcard(mapping.learning_style) /\ strip(mapping.learning_style) \notin learning_style_categories
  \/ ~IsWildcard(mapping.mood) /\ strip(mapping.mood) \notin mood_labels
  \/ ~ActivityExists(catalog, mapping.activity_id)

\* C22: a manual mapping edit whose batch contains a mapping with an
\* unknown learning style, an unknown mood or a missing activity is
\* rejected with an error, and it leaves every recommendation row as it
\* was, the rows named by the valid mappings before it included
C22_RejectedEditChangesNothing ==
  \A c \in courses, mappings \in EditBatches :
    (\E i \in DOMAIN mappings : InvalidMapping(mappings[i])) =>
      \A st \in _apply_recommendation_mappings({OpenSession(recs)}, catalog, c,
                                                mappings, FALSE, TRUE) :
        /\ st.err # "ok"
        /\ get_db(st, recs) = recs

\* an edit rejected after its first mapping had been applied, on a course
\* that holds a manual (Visual, sad) row
C22_Witness ==
  /\ last.op = "patch"
  /\ last.err \in {"UNKNOWN_LEARNING_STYLE", "UNKNOWN_MOOD", "ACTIVITY_NOT_FOUND"}
  /\ last.patched = 1
  /\ \E r \in RowsOf(last.course) : r.learning_style = Visual /\ r.mood = sad /\ ~r.is_auto

C29_DetailsAgreeWithTotals ==
  [][\A i \in DOMAIN survey_snapshot :
       LET question == survey_snapshot[i]
           scored == ScoredOption(question.id, question.options, 0, survey_answers[question.id])
       IN (question.id # NULL /\ survey_answers[question.id] \notin {NULL, ""}) =>
            /\ question.id \in DOMAIN answer_details' <=> scored # 0
            /\ scored # 0 =>
                 answer_details'[question.id].selected_option_id =
                   OptionId(question.id, question.options[scored], scored - 1)]_vars

\* the session a create_session call added
Created(out, before) == CHOOSE r \in out.class_sessions : r \notin before

\* the course is flagged: the session created next requires the survey and
\* carries a snapshot whatever is requested, the flag is cleared, and a
\* session created after it on request without survey does not require it
ForcedOnce(c, course_tbl, rows) ==
  \A requested \in BOOLEAN :
    LET out == create_session(courses, course_tbl, rows, c, requested)
    IN /\ out.status = "ok"
       /\ Created(out, rows).require_survey
       /\ Created(out, rows).survey_snapshot_json # NULL
       /\ ~out.course_rows[c].requires_rebaseline
       /\ UnusedSessions(out.class_sessions) # {} =>
            LET later == create_session(courses, out.course_rows, out.class_sessions, c, FALSE)
            IN /\ later.status = "ok"
               /\ ~Created(later, out.class_sessions).require_survey

\* C23: create_session on a course whose requires_rebaseline flag is set
\* produces a session that requires the survey and has a snapshot, whatever
\* was requested, and clears the flag, so that a later create_session
\* requesting no survey yields a session that does not require it; a change
\* of the baseline survey sets the flag again and the next session is
\* forced once more
C23_RebaselineForcesSurvey ==
  \A c \in courses :
    /\ (course_rows[c].requires_rebaseline /\ UnusedSessions(class_sessions) # {}) =>
         ForcedOnce(c, course_rows, class_sessions)
    /\ \A baseline_survey_id \in SurveyTemplates \ {course_rows[c].baseline_survey_id} :
         LET changed == update_course(courses, course_rows, class_sessions, c, baseline_survey_id)
         IN /\ changed.status = "ok"
            /\ changed.course_rows[c].requires_rebaseline
            /\ UnusedSessions(class_sessions) # {} =>
                 ForcedOnce(c, changed.course_rows, changed.class_sessions)

\* a first session that was forced to require the survey, a second one
\* created without it, then a new baseline survey: the course is flagged
\* again
C23_Witness ==
  /\ reply.op = "update_course"
  /\ course_rows["c1"] = CourseRow("t2", TRUE)
  /\ \E r1, r2 \in class_sessions :
       /\ r1.id = "x1" /\ r1.require_survey /\ r1.survey_snapshot_json = "t1"
       /\ r2.id = "x2" /\ ~r2.require_survey /\ r2.survey_snapshot_json = NULL

Closed(rows) == {r \in rows : r.closed_at # NULL}

\* no operation on the sessions reopens or removes the closed session r
StaysClosed(r) ==
  /\ \A i \in DOMAIN SessionOrder :
       r \in Closed(close_session(course_rows, class_sessions, SessionOrder[i]).class_sessions)
  /\ \A c \in Courses, requested \in BOOLEAN :
       UnusedSessions(class_sessions) # {} =>
         r \in Closed(create_session(courses, course_rows, class_sessions, c, requested).class_sessions)

\* C24: a session that close_session has closed stays closed: every public
\* join and every submit for its join token is rejected with SESSION_CLOSED
\* and creates or changes no submission, and closing it again is rejected
\* with SESSION_ALREADY_CLOSED and leaves the session as it is
C24_ClosedForGood ==
  \A r \in Closed(class_sessions) :
    /\ StaysClosed(r)
    /\ get_session_by_token(class_sessions, r.join_token) = "SESSION_CLOSED"
    /\ \A request \in PublicRequests(subs) :
         LET out == Submitted(class_sessions, subs, r.join_token, request)
         IN out.status = "SESSION_CLOSED" /\ out.subs = subs
    /\ LET again == close_session(course_rows, class_sessions, r.id)
       IN again.status = "SESSION_ALREADY_CLOSED" /\ again.class_sessions = class_sessions

\* a submit rejected by a closed session that holds a guest's submission
C24_Witness ==
  /\ reply.op = "submit"
  /\ reply.status = "SESSION_CLOSED"
  /\ \E r \in Closed(class_sessions), s \in subs : s.session_id = r.id /\ s.guest_id # NULL

OpenSessions(rows) == {r \in rows : r.closed_at = NULL}
Ids(rows) == {r.id : r \in rows}

\* the guest requests with a name, by the guest id they carry
NamedGuest(answers, guest_id) == Request(NULL, TRUE, "Ann", answers, guest_id)

====
